---- MODULE Spec2Model ----
(***************************************************************************)
(* The download subsystem of EmuMan: DownloadThread (the cancellable task  *)
(* wrapper), Downloader.download (backend selection and fallback),         *)
(* Downloader._download_aria2 (Backend A, external process) and            *)
(* Downloader._download_requests (Backend B, streaming HTTP), together     *)
(* with the two owners that start DownloadThreads (FileProcessor and       *)
(* AppUpdater).                                                            *)
(*                                                                         *)
(* Spec      : one DownloadThread instance, its worker running run() step  *)
(*             by step, the aria2c subprocess and the caller's stop()      *)
(*             interleaved with it.                                        *)
(* SpecBenign: Spec in an environment where every os.remove succeeds and   *)
(*             the percent aria2c prints never goes down.                  *)
(* SpecLines : Backend A reading more output lines than last_lines holds.  *)
(* SpecLive  : Spec with weak fairness of the worker and of the            *)
(*             subprocess's exit.                                          *)
(* SpecStart : the owners' start / cancel handlers over several thread     *)
(*             instances (isRunning() is true from start() until run()     *)
(*             returns).                                                   *)
(***************************************************************************)
EXTENDS Integers, Sequences, FiniteSets, TLC

\* ---------------------------------------------------------------- bounds
MaxLines == 2       \* output lines read from one aria2c subprocess
MaxChunks == 2      \* chunks iter_content yields for one response
MaxThreads == 3     \* DownloadThread instances created in SpecStart
MaxCallbacks == 2       \* progress callbacks of one firmware download
MaxSyncs == 2           \* SyncWorker instances created

\* ------------------------------------------------------- program constants
LastLinesCap == 20      \* "Keep last 20 lines"
RemoveAttempts == 3     \* for attempt in range(3)
ChunkSize == 65536      \* chunk_size=1024*64, in bytes
WindowTicks == 2        \* the 0.5 s of line 333, in clock ticks of 0.25 s

\* ------------------------------------------------------------ input sets
\* the (url, save_path) a DownloadThread is constructed with
Requests == { << "https://host/file.zip", "downloads/file.zip" >> }
\* config.json: absent, not JSON, or an object with the keys it sets
\* ("verbose": aria2_verbose_log and disable_ipv6 are true)
ConfigStates == {"missing", "invalid", "aria2", "requests", "verbose"}
\* the pieces of an aria2c output line: "(<n>%)", "DL:<size><unit>", other text
Pct(n) == [pct |-> n, dl |-> ""]
Dl(s) == [pct |-> -1, dl |-> s]
Text == [pct |-> -1, dl |-> ""]
\* aria2c output lines, each the sequence of its pieces: the size before
\* the percent, the percent before the size, the two side by side
Lines ==
  { << Dl("2.5MiB"), Pct(40) >>,
    << Pct(40), Text, Dl("2.5MiB") >>,
    << Pct(90), Dl("3.5MiB") >> }
\* Content-Length of the response, in chunk units (0: header absent)
TotalSizes == {0, 2}
ChunkLens == {1}
\* clock ticks between two readings of time.time() in Backend B
Ticks == {1, 3}

VARIABLES
  \* --- DownloadThread
  url, save_path,     \* constructor arguments
  is_running,         \* self._is_running
  pc,                 \* position of the worker in run() / download()
  emitted,            \* signals emitted by the thread, in order
  term,               \* outcome run() decided on at its flag test
  \* --- environment of one invocation
  config,             \* state of config.json
  onPath, bundled,    \* shutil.which("aria2c"), bundled.exists()
  mkdirOk,            \* whether dest_path.parent.mkdir succeeds
  cbFaulty,           \* whether the progress sink raises when it is called
  lineBudget,         \* output lines the subprocess prints at most
  envFaults,          \* os.remove may fail and aria2c's percent may go down
  files,              \* paths that exist on disk
  dirExists,          \* destination directory exists
  \* --- Downloader.download
  success,            \* value returned by Downloader.download ("none" before)
  cbLog,              \* events passed to progress_callback, in order
  aCalls, bCalls,     \* invocations of _download_aria2 / _download_requests
  aArgs, bArgs,       \* (url, dest) each backend was invoked with
  aEnd,               \* how _download_aria2 ended
  bRet,               \* what _download_requests returned
  \* --- Backend A
  procState, exitCode,\* the aria2c subprocess
  spawns,             \* subprocesses spawned
  last_lines, linesRead,
  cleanIdx, attempt,  \* cancel cleanup: file index and attempt number
  cmd,                \* options of the aria2c command line
  forwarded,          \* output lines forwarded to the log as "[Aria2] ..."
  report,             \* the output snippet logged for a non-zero exit code
  \* --- Backend B
  total_size, downloaded, chunk, chunksRead,
  elapsed,            \* current_time - start_time, in ticks
  speedTimes,         \* elapsed at each event with a non-empty speed (history)
  \* --- history
  stopAt,             \* phase of the worker when stop() was first called
  allLines,           \* every output line read from the subprocess, in order
  afterStop,          \* lines processed and chunks written since stop()
  removeLog,          \* the cleanup's visits of files and results of os.remove
  \* --- owners (SpecStart)
  thr,                \* thread instances
  fp_dl_thread,       \* FileProcessor.dl_thread (0: None)
  au_thread,          \* AppUpdater.thread (0: None)
  \* --- FirmwareInstallWorker (SpecFirmware)
  fw_pc,              \* position of the worker in run() / download_and_install
  fw_is_cancelled,    \* self._is_cancelled
  fw_emitted,         \* signals emitted by the worker, in order
  fw_site,            \* the phase of the progress callback under way
  fw_events,          \* progress callbacks made by Downloader.download
  fw_result,          \* success of download_and_install ("none" before)
  fw_cancelAt,        \* position and signals emitted when cancel() was first called
  \* --- CacheManager and its SyncWorkers (SpecSync)
  sw,                 \* SyncWorker instances: position and failed branches
  sync_worker,        \* CacheManager.sync_worker (0: None)
  cache,              \* the cache file: age and the sync that wrote it
  queued,             \* finished signals of workers not yet delivered
  notified            \* signals emitted by the CacheManager, in order

constVars ==
  << url, save_path, config, onPath, bundled, mkdirOk, cbFaulty, envFaults,
     lineBudget >>
obsVars == << cmd, forwarded, report, allLines, afterStop >>
callVars == << aCalls, bCalls, aArgs, bArgs, aEnd, bRet >>
aVars == << procState, exitCode, spawns, last_lines, linesRead, cleanIdx, attempt >>
bVars == << total_size, downloaded, chunk, chunksRead, elapsed, speedTimes >>
dlVars ==
  << url, save_path, is_running, pc, emitted, term, config, onPath, bundled,
     mkdirOk, cbFaulty, envFaults, files, dirExists, success, cbLog, aCalls, bCalls,
     aArgs, bArgs, aEnd, bRet, procState, exitCode, spawns, last_lines,
     linesRead, cleanIdx, attempt, total_size, downloaded, chunk, chunksRead,
     elapsed, speedTimes, stopAt, lineBudget, cmd, forwarded, report, allLines, afterStop,
     removeLog >>
ownVars == << thr, fp_dl_thread, au_thread >>
fwVars ==
  << fw_pc, fw_is_cancelled, fw_emitted, fw_site, fw_events, fw_result,
     fw_cancelAt >>
syncVars == << sw, sync_worker, cache, queued, notified >>
workerVars == << fwVars, syncVars >>
vars == << dlVars, ownVars, workerVars >>

\* ---------------------------------------------------------------- helpers
NoArgs == << "none", "none" >>
NoChunk == 0

\* Path(dest_path) and str(dest_path) + ".aria2"
DestFile(d) == [path |-> d, ext |-> ""]
Aria2ControlFile(d) == [path |-> d, ext |-> ".aria2"]

\* files_to_remove = [aria2_control_file, str(dest_path)]
FilesToRemove(d) == << Aria2ControlFile(d), DestFile(d) >>

\* a variant of UseAria2 in which only an explicit preference enables Backend A
UseAria2Strict(cfg) == cfg = "aria2"

\* use_aria2: True unless config.json exists, parses and selects "requests";
\* a read or parse error is caught and leaves the default
UseAria2(cfg) ==
  IF cfg = "missing" THEN TRUE
  ELSE IF cfg = "invalid" THEN TRUE
  ELSE cfg # "requests"

\* get_aria2_executable(): the copy on the search path, else the bundled copy
GetAria2Executable(p, b) ==
  IF p THEN "aria2c"
  ELSE IF b THEN "resources/bin/aria2c"
  ELSE "None"

\* the test of line 129: use_aria2 and Downloader.get_aria2_executable()
TryAria2(cfg, p, b) == UseAria2(cfg) /\ GetAria2Executable(p, b) # "None"

\* whether the pattern \((\d+)%\).*?DL:([0-9.]+[a-zA-Z]+) matches with its
\* first group at piece i and its second group at piece j
MatchAt(line, i, j) ==
  /\ i < j
  /\ line[i].pct # -1
  /\ line[j].dl # ""
  /\ \A k \in (i + 1)..(j - 1) : line[k].dl = ""

\* progress_pattern.search(output): whether there is a match
ProgressMatch(line) ==
  \E i \in 1..Len(line), j \in 1..Len(line) : MatchAt(line, i, j)

\* where the leftmost match begins, and where its lazy ".*?" stops
MatchStart(line) ==
  CHOOSE i \in 1..Len(line) :
    /\ \E j \in 1..Len(line) : MatchAt(line, i, j)
    /\ \A h \in 1..(i - 1) : \A j \in 1..Len(line) : ~MatchAt(line, h, j)
MatchEnd(line) ==
  CHOOSE j \in 1..Len(line) : MatchAt(line, MatchStart(line), j)

\* a variant of LineEvent that passes the size as it was printed
LineEventBareSize(line) ==
  [phase |-> "download", current |-> line[MatchStart(line)].pct, total |-> 100,
   speed |-> line[MatchEnd(line)].dl]

\* the event Backend A builds from a matching line:
\* ('download', int(group(1)), 100, group(2) + "/s")
LineEvent(line) ==
  [phase |-> "download", current |-> line[MatchStart(line)].pct, total |-> 100,
   speed |-> line[MatchEnd(line)].dl \o "/s"]

\* cfg.get("aria2_verbose_log", False) and cfg.get("disable_ipv6", False);
\* a read or parse error is caught and leaves False
Aria2VerboseLog(cfg) == cfg = "verbose"
DisableIpv6(cfg) == cfg = "verbose"

\* a variant of ConsoleLogLevel whose default is "info"
ConsoleLogLevelInfo(cfg) == IF cfg = "requests" THEN "warn" ELSE "info"

\* console_log_level: "warn" unless aria2_verbose_log is set
ConsoleLogLevel(cfg) == IF Aria2VerboseLog(cfg) THEN "info" ELSE "warn"

\* the options of cmd that depend on config.json
Cmd(cfg) == [level |-> ConsoleLogLevel(cfg), noIpv6 |-> DisableIpv6(cfg)]
NoCmd == [level |-> "none", noIpv6 |-> FALSE]

\* line 267: whether each output line is forwarded to the log
ForwardsLines(level) == level \in {"info", "debug"}

\* int(downloaded / total_size * 100); exact for the sizes of TotalSizes
Percent(done, total) == (done * 100) \div total

FinalEvent == [phase |-> "download", current |-> 100, total |-> 100, speed |-> ""]

\* a variant of ProgressCb that announces completion when it relays 100
ProgressCbFinishAt100(ev) ==
  IF is_running
    THEN IF ev.current = 100
           THEN emitted \o << << "progress", ev.current, ev.speed >>,
                              << "finished", TRUE, save_path >> >>
           ELSE Append(emitted, << "progress", ev.current, ev.speed >>)
    ELSE emitted

\* a variant of ProgressCb that relays the total in place of the current value
ProgressCbTotal(ev) ==
  IF is_running
    THEN Append(emitted, << "progress", ev.total, ev.speed >>)
    ELSE emitted

\* DownloadThread.run.progress_cb: relays (current, speed) while _is_running
ProgressCb(ev) ==
  IF is_running
    THEN Append(emitted, << "progress", ev.current, ev.speed >>)
    ELSE emitted

\* one call of progress_callback that returns normally
Deliver(ev) ==
  /\ cbLog' = Append(cbLog, ev)
  /\ emitted' = ProgressCb(ev)

\* one call of progress_callback that raises before it relays anything
Raises(ev) ==
  /\ cbLog' = Append(cbLog, ev)
  /\ UNCHANGED emitted

\* whether a call of progress_callback raises
MayRaise == {cbFaulty}

\* cancel_check(): not self._is_running
CancelCheck == ~is_running

\* positions of the worker inside each backend
APcs == {"a_spawn", "a_poll", "a_kill", "a_clean", "a_read", "a_exit", "a_except"}
BPcs == {"b_get", "b_open", "b_iter", "b_check", "b_write", "b_final", "b_except"}

\* the phase of the worker at position p
Phase(p) ==
  IF p = "idle" THEN "idle"
  ELSE IF p \in {"dl_mkdir", "dl_select"} THEN "select"
  ELSE IF p \in APcs THEN "A"
  ELSE IF p \in {"dl_recheck", "dl_except"} THEN "fallback"
  ELSE IF p \in BPcs THEN "B"
  ELSE IF p \in {"run_check", "run_except"} THEN "returned"
  ELSE IF p = "run_emit" THEN "decided"
  ELSE "done"

\* ------------------------------------------------------------------- Init
InitOwners ==
  /\ thr = [t \in 1..MaxThreads |-> [st |-> "unborn", owner |-> "none",
                                     dest |-> "none", flag |-> TRUE]]
  /\ fp_dl_thread = 0
  /\ au_thread = 0

\* FirmwareInstallWorker.__init__ (firmware_manager.py, lines 35..40)
NeverCancelled == [at |-> "never", emitted |-> 0]
InitFirmwareWorker ==
  /\ fw_pc = "idle"
  /\ fw_is_cancelled = FALSE
  /\ fw_emitted = << >>
  /\ fw_site = "none"
  /\ fw_events = 0
  /\ fw_result = "none"
  /\ fw_cancelAt = NeverCancelled

\* CacheManager.__init__ (cache_manager.py, lines 120..130): no worker yet
NoCache == [age |-> "absent", by |-> 0]
InitCacheManager ==
  /\ sw = [n \in 1..MaxSyncs |-> [pc |-> "unborn", failed |-> {}]]
  /\ sync_worker = 0
  /\ queued = << >>
  /\ notified = << >>

InitWorkers == InitFirmwareWorker /\ InitCacheManager /\ cache = NoCache

\* DownloadThread.__init__ and the environment the invocation will meet
InitThread ==
  /\ \E r \in Requests : url = r[1] /\ save_path = r[2]
  /\ is_running = TRUE
  /\ pc = "idle"
  /\ emitted = << >>
  /\ term = "none"
  /\ config \in ConfigStates
  /\ onPath \in BOOLEAN
  /\ bundled \in BOOLEAN
  /\ mkdirOk \in BOOLEAN
  /\ cbFaulty \in BOOLEAN
  /\ files = {}
  /\ dirExists = FALSE
  /\ success = "none"
  /\ cbLog = << >>
  /\ aCalls = 0 /\ bCalls = 0
  /\ aArgs = NoArgs /\ bArgs = NoArgs
  /\ aEnd = "none" /\ bRet = "none"
  /\ procState = "none" /\ exitCode = -1 /\ spawns = 0
  /\ last_lines = << >> /\ linesRead = 0
  /\ cleanIdx = 0 /\ attempt = 0
  /\ total_size = 0 /\ downloaded = 0 /\ chunk = NoChunk /\ chunksRead = 0
  /\ elapsed = 0 /\ speedTimes = << >>
  /\ stopAt = "never"
  /\ cmd = NoCmd /\ forwarded = 0 /\ report = << >>
  /\ allLines = << >> /\ afterStop = 0 /\ removeLog = << >>
  /\ InitOwners
  /\ InitWorkers

\* any environment: a remove may fail, the subprocess may print anything
Init == InitThread /\ envFaults = TRUE /\ lineBudget = MaxLines

\* an environment in which every os.remove succeeds and the percent that
\* aria2c prints never goes down
InitBenign == InitThread /\ envFaults = FALSE /\ lineBudget = MaxLines

\* any environment, with one config.json for each first backend and the
\* executable, if any, on the search path
InitLive == Init /\ config \in {"missing", "requests"} /\ ~bundled

\* a subprocess that prints more lines than last_lines holds, started by
\* Backend A with no config.json and a sink that does not raise
InitLines ==
  /\ InitThread
  /\ envFaults = TRUE
  /\ lineBudget = LastLinesCap + MaxLines
  /\ config = "missing" /\ onPath /\ ~bundled /\ mkdirOk /\ ~cbFaulty

\* a variant of Start that runs a finished instance again
StartAgain ==
  /\ pc \in {"idle", "done"}
  /\ pc' = "dl_mkdir"
  /\ UNCHANGED << constVars, removeLog, obsVars, callVars, aVars, bVars, is_running, emitted, term,
                  files, dirExists, success, cbLog, stopAt, ownVars, workerVars >>


\* ---------------------------------------------------------- DownloadThread
\* QThread.start(): the worker begins run()
Start ==
  /\ pc = "idle"
  /\ pc' = "dl_mkdir"
  /\ UNCHANGED << constVars, removeLog, obsVars, callVars, aVars, bVars, is_running, emitted, term,
                  files, dirExists, success, cbLog, stopAt, ownVars, workerVars >>

\* a variant of Stop that also emits cancelled from the caller's thread
StopEmits ==
  /\ is_running' = FALSE
  /\ stopAt' = IF stopAt = "never" THEN Phase(pc) ELSE stopAt
  /\ emitted' = IF is_running THEN Append(emitted, << "cancelled" >>) ELSE emitted
  /\ UNCHANGED << constVars, removeLog, obsVars, callVars, aVars, bVars, pc, term,
                  files, dirExists, success, cbLog, ownVars, workerVars >>

\* DownloadThread.stop(), callable from the owner's thread at any moment
Stop ==
  /\ is_running' = FALSE
  /\ stopAt' = IF stopAt = "never" THEN Phase(pc) ELSE stopAt
  /\ UNCHANGED << constVars, removeLog, obsVars, callVars, aVars, bVars, pc, emitted, term,
                  files, dirExists, success, cbLog, ownVars, workerVars >>

\* run(), line 42..49: the flag test after Downloader.download returned
RunCheck ==
  /\ pc = "run_check"
  /\ term' = IF ~is_running THEN "cancelled"
             ELSE IF success = "true" THEN "ok" ELSE "fail"
  /\ pc' = "run_emit"
  /\ UNCHANGED << constVars, removeLog, obsVars, callVars, aVars, bVars, is_running, emitted,
                  files, dirExists, success, cbLog, stopAt, ownVars, workerVars >>

\* the signal run() emits for the outcome it decided on
TerminalSignal(t) ==
  IF t = "cancelled" THEN << "cancelled" >>
  ELSE IF t = "ok" THEN << "finished", TRUE, save_path >>
  ELSE << "finished", FALSE, "Download failed" >>

\* run(), lines 43, 47, 49: emit and return
RunEmit ==
  /\ pc = "run_emit"
  /\ emitted' = Append(emitted, TerminalSignal(term))
  /\ pc' = "done"
  /\ UNCHANGED << constVars, removeLog, obsVars, callVars, aVars, bVars, is_running, term,
                  files, dirExists, success, cbLog, stopAt, ownVars, workerVars >>

\* run(), lines 51..52: an exception out of Downloader.download
RunExcept ==
  /\ pc = "run_except"
  /\ emitted' = Append(emitted, << "finished", FALSE, "error" >>)
  /\ term' = "fail"
  /\ pc' = "done"
  /\ UNCHANGED << constVars, removeLog, obsVars, callVars, aVars, bVars, is_running,
                  files, dirExists, success, cbLog, stopAt, ownVars, workerVars >>

\* a variant of DlMkdir that goes on to the backends when mkdir failed
DlMkdirProceeds ==
  /\ pc = "dl_mkdir"
  /\ dirExists' = mkdirOk
  /\ pc' = "dl_select"
  /\ UNCHANGED << constVars, removeLog, obsVars, callVars, aVars, bVars, is_running, emitted, term,
                  files, success, cbLog, stopAt, ownVars, workerVars >>

\* ------------------------------------------------------ Downloader.download
\* lines 114..115: dest_path.parent.mkdir(parents=True, exist_ok=True)
DlMkdir ==
  /\ pc = "dl_mkdir"
  /\ IF mkdirOk
       THEN /\ dirExists' = TRUE
            /\ pc' = "dl_select"
            /\ UNCHANGED success
       ELSE /\ pc' = "run_except"
            /\ success' = "raise"
            /\ UNCHANGED dirExists
  /\ UNCHANGED << constVars, removeLog, obsVars, callVars, aVars, bVars, is_running, emitted, term,
                  files, cbLog, stopAt, ownVars, workerVars >>

\* lines 117..131 and 141..142: read the preference, pick the first backend
DlSelect ==
  /\ pc = "dl_select"
  /\ IF TryAria2(config, onPath, bundled)
       THEN /\ pc' = "a_spawn"
            /\ aCalls' = aCalls + 1
            /\ aArgs' = << url, save_path >>
            /\ UNCHANGED << bCalls, bArgs >>
       ELSE /\ pc' = "b_get"
            /\ bCalls' = bCalls + 1
            /\ bArgs' = << url, save_path >>
            /\ UNCHANGED << aCalls, aArgs >>
  /\ UNCHANGED << constVars, removeLog, obsVars, aEnd, bRet, aVars, bVars, is_running, emitted, term,
                  files, dirExists, success, cbLog, stopAt, ownVars, workerVars >>

\* lines 134..142: Backend A returned False; re-check the predicate
DlRecheck ==
  /\ pc = "dl_recheck"
  /\ IF CancelCheck
       THEN /\ success' = "false"
            /\ pc' = "run_check"
            /\ UNCHANGED << bCalls, bArgs >>
       ELSE /\ pc' = "b_get"
            /\ bCalls' = bCalls + 1
            /\ bArgs' = << url, save_path >>
            /\ UNCHANGED success
  /\ UNCHANGED << constVars, removeLog, obsVars, aCalls, aArgs, aEnd, bRet, aVars, bVars, is_running,
                  emitted, term, files, dirExists, cbLog, stopAt, ownVars, workerVars >>

\* a variant of DlExcept that gives up instead of falling back
DlExceptGivesUp ==
  /\ pc = "dl_except"
  /\ pc' = "run_check"
  /\ success' = "false"
  /\ UNCHANGED << constVars, removeLog, obsVars, callVars, aVars, bVars, is_running,
                  emitted, term, files, dirExists, cbLog, stopAt, ownVars, workerVars >>

\* a variant of DlExcept that lets Backend A's exception out of download
DlExceptPropagates ==
  /\ pc = "dl_except"
  /\ success' = "raise"
  /\ pc' = "run_except"
  /\ UNCHANGED << constVars, removeLog, obsVars, callVars, aVars, bVars, is_running,
                  emitted, term, files, dirExists, cbLog, stopAt, ownVars, workerVars >>


\* lines 137..142: Backend A raised; log and fall through to Backend B
DlExcept ==
  /\ pc = "dl_except"
  /\ pc' = "b_get"
  /\ bCalls' = bCalls + 1
  /\ bArgs' = << url, save_path >>
  /\ UNCHANGED << constVars, removeLog, obsVars, aCalls, aArgs, aEnd, bRet, aVars, bVars, is_running,
                  emitted, term, files, dirExists, success, cbLog, stopAt, ownVars, workerVars >>

\* ------------------------------------------- Backend A: _download_aria2
\* lines 146..214: build the command and spawn the subprocess; Popen may raise
ASpawn ==
  /\ pc = "a_spawn"
  /\ cmd' = Cmd(config)
  /\ \/ /\ procState' = "running"
        /\ spawns' = spawns + 1
        /\ pc' = "a_poll"
     \/ /\ pc' = "a_except"
        /\ UNCHANGED << procState, spawns >>
  /\ last_lines' = << >>
  /\ UNCHANGED << constVars, removeLog, forwarded, report, allLines, afterStop, callVars, exitCode, linesRead, cleanIdx, attempt,
                  bVars, is_running, emitted, term, files, dirExists, success,
                  cbLog, stopAt, ownVars, workerVars >>

\* the subprocess starts writing: the destination and its control file appear
ProcWrite ==
  /\ procState = "running"
  /\ files' = files \cup {DestFile(save_path), Aria2ControlFile(save_path)}
  /\ UNCHANGED << constVars, removeLog, obsVars, callVars, aVars, bVars, is_running, pc, emitted,
                  term, dirExists, success, cbLog, stopAt, ownVars, workerVars >>

\* the subprocess exits by itself: code 0 leaves the complete file and no
\* control file, another code leaves whatever it had written
ProcExit ==
  /\ procState = "running"
  /\ \E rc \in {0, 1} :
       /\ exitCode' = rc
       /\ files' = IF rc = 0
                     THEN (files \cup {DestFile(save_path)})
                            \ {Aria2ControlFile(save_path)}
                     ELSE files
  /\ procState' = "exited"
  /\ UNCHANGED << constVars, removeLog, obsVars, callVars, spawns, last_lines, linesRead, cleanIdx,
                  attempt, bVars, is_running, pc, emitted, term, dirExists,
                  success, cbLog, stopAt, ownVars, workerVars >>

\* a variant of APoll that does not consult the predicate
APollBlind ==
  /\ pc = "a_poll"
  /\ pc' = "a_read"
  /\ UNCHANGED << constVars, removeLog, obsVars, callVars, aVars, bVars, is_running, emitted, term,
                  files, dirExists, success, cbLog, stopAt, ownVars, workerVars >>

\* line 217: the cancellation check at the head of the read loop
APoll ==
  /\ pc = "a_poll"
  /\ pc' = IF CancelCheck THEN "a_kill" ELSE "a_read"
  /\ UNCHANGED << constVars, removeLog, obsVars, callVars, aVars, bVars, is_running, emitted, term,
                  files, dirExists, success, cbLog, stopAt, ownVars, workerVars >>

\* lines 218..233: kill the subprocess, wait, start the cleanup
AKill ==
  /\ pc = "a_kill"
  /\ procState' = IF procState = "running" THEN "killed" ELSE procState
  /\ cleanIdx' = 1
  /\ attempt' = 0
  /\ pc' = "a_clean"
  /\ UNCHANGED << constVars, removeLog, obsVars, callVars, exitCode, spawns, last_lines, linesRead,
                  bVars, is_running, emitted, term, files, dirExists, success,
                  cbLog, stopAt, ownVars, workerVars >>

\* what follows the cleanup of file number i: the next file, or return False
ACleanNext(i) ==
  IF i < Len(FilesToRemove(save_path))
    THEN /\ cleanIdx' = i + 1
         /\ attempt' = 0
         /\ pc' = "a_clean"
         /\ UNCHANGED aEnd
    ELSE /\ cleanIdx' = 0
         /\ attempt' = 0
         /\ aEnd' = "false"
         /\ pc' = "dl_recheck"

\* the cleanup visited file f: it was absent, or os.remove ended as outcome
Logged(f, outcome) ==
  removeLog' = Append(removeLog, [file |-> f, outcome |-> outcome])

\* lines 235..237: a file that does not exist is skipped
ACleanSkip ==
  /\ pc = "a_clean"
  /\ FilesToRemove(save_path)[cleanIdx] \notin files
  /\ Logged(FilesToRemove(save_path)[cleanIdx], "absent")
  /\ ACleanNext(cleanIdx)
  /\ UNCHANGED << constVars, obsVars, aCalls, bCalls, aArgs, bArgs, bRet, procState,
                  exitCode, spawns, last_lines, linesRead, bVars, is_running,
                  emitted, term, files, dirExists, success, cbLog, stopAt,
                  ownVars, workerVars >>

\* results of one os.remove in the cancel cleanup of Backend A
RemoveOutcomes ==
  IF envFaults THEN {"removed", "locked", "error"} ELSE {"removed"}

\* whether an os.remove of Backend B removes the file
RemovedChoices == IF envFaults THEN {TRUE, FALSE} ELSE {TRUE}

\* the percent of a new output line is not below that of an earlier line
PercentKeeps(ls, line) ==
  \A i \in 1..Len(ls) : \A k \in 1..Len(ls[i]), m \in 1..Len(line) :
    line[m].pct = -1 \/ ls[i][k].pct <= line[m].pct

\* a variant of ACleanStep that retries after a failure of any kind
ACleanStepRetriesAll(outcome) ==
  IF outcome = "removed"
    THEN /\ files' = files \ {FilesToRemove(save_path)[cleanIdx]}
         /\ ACleanNext(cleanIdx)
    ELSE /\ UNCHANGED files
         /\ IF attempt < RemoveAttempts - 1
              THEN /\ attempt' = attempt + 1
                   /\ UNCHANGED << cleanIdx, pc, aEnd >>
              ELSE ACleanNext(cleanIdx)

\* lines 240..254: what follows one os.remove: success ends the attempts,
\* PermissionError is retried while attempt < 2, another error is not
ACleanStep(outcome) ==
  CASE outcome = "removed" ->
         /\ files' = files \ {FilesToRemove(save_path)[cleanIdx]}
         /\ ACleanNext(cleanIdx)
    [] outcome = "locked" ->
         /\ UNCHANGED files
         /\ IF attempt < RemoveAttempts - 1
              THEN /\ attempt' = attempt + 1
                   /\ UNCHANGED << cleanIdx, pc, aEnd >>
              ELSE ACleanNext(cleanIdx)
    [] outcome = "error" ->
         /\ UNCHANGED files
         /\ ACleanNext(cleanIdx)

\* lines 240..254: one os.remove attempt of the cancel cleanup
ACleanAttempt ==
  /\ pc = "a_clean"
  /\ FilesToRemove(save_path)[cleanIdx] \in files
  /\ \E outcome \in RemoveOutcomes :
       /\ Logged(FilesToRemove(save_path)[cleanIdx], outcome)
       /\ ACleanStep(outcome)
  /\ UNCHANGED << constVars, obsVars, aCalls, bCalls, aArgs, bArgs, bRet, procState,
                  exitCode, spawns, last_lines, linesRead, bVars, is_running,
                  emitted, term, dirExists, success, cbLog, stopAt, ownVars, workerVars >>

\* a variant of KeepLast that refuses the new line once the buffer is full
KeepFirst(ls, line) ==
  IF Len(ls) + 1 > LastLinesCap THEN ls ELSE Append(ls, line)

\* last_lines.append(output.strip()); if len(last_lines) > 20: pop(0)
\* (the pieces of a line carry no surrounding whitespace for strip() to drop)
KeepLast(ls, line) ==
  IF Len(ls) + 1 > LastLinesCap THEN Tail(Append(ls, line)) ELSE Append(ls, line)

\* the lines the subprocess may print after n lines: any line at the head
\* of its output and past the capacity of last_lines, plain text in between
StreamLines(n) ==
  IF n < MaxLines \/ n >= LastLinesCap THEN Lines ELSE { << Text >> }

\* lines 258..276: readline returned a line: it is kept in last_lines,
\* forwarded to the log at level info, and a matching line is reported to
\* the callback, whose exception is swallowed
AReadLine ==
  /\ pc = "a_read"
  /\ procState \in {"running", "exited"}
  /\ linesRead < lineBudget
  /\ \E line \in { l \in StreamLines(linesRead) :
                      envFaults \/ PercentKeeps(last_lines, l) } :
       /\ last_lines' = KeepLast(last_lines, line)
       /\ allLines' = Append(allLines, line)
       /\ IF ProgressMatch(line)
            THEN \E raised \in MayRaise :
                   IF raised THEN Raises(LineEvent(line))
                   ELSE Deliver(LineEvent(line))
            ELSE UNCHANGED << cbLog, emitted >>
  /\ forwarded' = IF ForwardsLines(cmd.level) THEN forwarded + 1 ELSE forwarded
  /\ afterStop' = IF is_running THEN afterStop ELSE afterStop + 1
  /\ linesRead' = linesRead + 1
  /\ pc' = "a_poll"
  /\ UNCHANGED << constVars, removeLog, cmd, report, callVars, procState, exitCode, spawns, cleanIdx,
                  attempt, bVars, is_running, term, files, dirExists, success,
                  stopAt, ownVars, workerVars >>

\* line 258: reading the pipe of the subprocess fails with an exception
AReadError ==
  /\ pc = "a_read"
  /\ procState \in {"running", "exited"}
  /\ pc' = "a_except"
  /\ UNCHANGED << constVars, removeLog, obsVars, callVars, aVars, bVars, is_running, emitted, term,
                  files, dirExists, success, cbLog, stopAt, ownVars, workerVars >>

\* lines 258..260: end of output and the subprocess has exited
AReadEOF ==
  /\ pc = "a_read"
  /\ procState = "exited"
  /\ pc' = "a_exit"
  /\ UNCHANGED << constVars, removeLog, obsVars, callVars, aVars, bVars, is_running, emitted, term,
                  files, dirExists, success, cbLog, stopAt, ownVars, workerVars >>

\* a variant of AExit that returns True without reporting 100
AExitSilent ==
  /\ pc = "a_exit"
  /\ IF exitCode = 0
       THEN /\ aEnd' = "true"
            /\ success' = "true"
            /\ pc' = "run_check"
            /\ UNCHANGED report
       ELSE /\ report' = last_lines
            /\ aEnd' = "false"
            /\ pc' = "dl_recheck"
            /\ UNCHANGED success
  /\ UNCHANGED << constVars, removeLog, cmd, forwarded, allLines, afterStop, cbLog, emitted,
                  aCalls, bCalls, aArgs, bArgs, bRet, aVars, bVars,
                  is_running, term, files, dirExists, stopAt, ownVars, workerVars >>

\* lines 278..284: exit code 0 reports 100 and returns True (an exception of
\* the callback goes to the handler); another code logs the code and the
\* joined last_lines and returns False
AExit ==
  /\ pc = "a_exit"
  /\ IF exitCode = 0
       THEN /\ \E raised \in MayRaise :
                 IF raised
                   THEN /\ Raises(FinalEvent)
                        /\ pc' = "a_except"
                        /\ UNCHANGED << aEnd, success >>
                   ELSE /\ Deliver(FinalEvent)
                        /\ aEnd' = "true"
                        /\ success' = "true"
                        /\ pc' = "run_check"
            /\ UNCHANGED report
       ELSE /\ report' = last_lines
            /\ aEnd' = "false"
            /\ pc' = "dl_recheck"
            /\ UNCHANGED << cbLog, emitted, success >>
  /\ UNCHANGED << constVars, removeLog, cmd, forwarded, allLines, afterStop, aCalls, bCalls, aArgs, bArgs, bRet, aVars, bVars,
                  is_running, term, files, dirExists, stopAt, ownVars, workerVars >>

\* a variant of AExcept that re-raises without killing the subprocess
AExceptNoKill ==
  /\ pc = "a_except"
  /\ aEnd' = "raise"
  /\ pc' = "dl_except"
  /\ UNCHANGED << constVars, removeLog, obsVars, aCalls, bCalls, aArgs, bArgs, bRet, aVars,
                  bVars, is_running, emitted, term, files, dirExists, success, cbLog,
                  stopAt, ownVars, workerVars >>

\* lines 286..293: kill the subprocess if there is one, re-raise
AExcept ==
  /\ pc = "a_except"
  /\ procState' = IF procState = "running" THEN "killed" ELSE procState
  /\ aEnd' = "raise"
  /\ pc' = "dl_except"
  /\ UNCHANGED << constVars, removeLog, obsVars, aCalls, bCalls, aArgs, bArgs, bRet, exitCode,
                  spawns, last_lines, linesRead, cleanIdx, attempt, bVars,
                  is_running, emitted, term, files, dirExists, success, cbLog,
                  stopAt, ownVars, workerVars >>

\* ---------------------------------------- Backend B: _download_requests
\* lines 298..305: the GET and its status; an error goes to the handler
BGet ==
  /\ pc = "b_get"
  /\ \/ /\ \E ts \in TotalSizes : total_size' = ts
        /\ pc' = "b_open"
     \/ /\ pc' = "b_except"
        /\ UNCHANGED total_size
  /\ downloaded' = 0
  /\ chunksRead' = 0
  /\ chunk' = NoChunk
  /\ elapsed' = 0
  /\ speedTimes' = << >>
  /\ UNCHANGED << constVars, removeLog, obsVars, callVars, aVars, is_running, emitted, term, files,
                  dirExists, success, cbLog, stopAt, ownVars, workerVars >>

\* line 307: open(dest_path, 'wb') creates or truncates the file, or raises
BOpen ==
  /\ pc = "b_open"
  /\ \/ /\ files' = files \cup {DestFile(save_path)}
        /\ pc' = "b_iter"
     \/ /\ pc' = "b_except"
        /\ UNCHANGED files
  /\ UNCHANGED << constVars, removeLog, obsVars, callVars, aVars, bVars, is_running, emitted, term,
                  dirExists, success, cbLog, stopAt, ownVars, workerVars >>

\* line 308: iter_content yields the next chunk
BNextChunk ==
  /\ pc = "b_iter"
  /\ chunksRead < MaxChunks
  /\ \E n \in ChunkLens : chunk' = n
  /\ chunksRead' = chunksRead + 1
  /\ pc' = "b_check"
  /\ UNCHANGED << constVars, removeLog, obsVars, callVars, aVars, total_size, downloaded, elapsed, speedTimes,
                  is_running, emitted, term, files, dirExists, success, cbLog,
                  stopAt, ownVars, workerVars >>

\* line 308: the body ends
BStreamEnd ==
  /\ pc = "b_iter"
  /\ pc' = "b_final"
  /\ UNCHANGED << constVars, removeLog, obsVars, callVars, aVars, bVars, is_running, emitted, term,
                  files, dirExists, success, cbLog, stopAt, ownVars, workerVars >>

\* line 308: the connection fails while the body is read
BStreamError ==
  /\ pc = "b_iter"
  /\ pc' = "b_except"
  /\ UNCHANGED << constVars, removeLog, obsVars, callVars, aVars, bVars, is_running, emitted, term,
                  files, dirExists, success, cbLog, stopAt, ownVars, workerVars >>

\* lines 313..318 and 350..355: the destination is removed if it exists; a
\* failing os.remove is logged or ignored
BRemove ==
  IF DestFile(save_path) \in files
    THEN \E removed \in RemovedChoices :
           /\ files' = IF removed THEN files \ {DestFile(save_path)} ELSE files
           /\ Logged(DestFile(save_path), IF removed THEN "removed" ELSE "error")
    ELSE /\ UNCHANGED files
         /\ Logged(DestFile(save_path), "absent")

\* lines 309..320: the cancellation check of a chunk; on cancel the file is
\* closed and removed (a failing remove is logged) and False is returned
BCheck ==
  /\ pc = "b_check"
  /\ IF CancelCheck
       THEN /\ BRemove
            /\ chunk' = NoChunk
            /\ bRet' = "false"
            /\ success' = "false"
            /\ pc' = "run_check"
       ELSE /\ pc' = "b_write"
            /\ UNCHANGED << files, chunk, bRet, success, removeLog >>
  /\ UNCHANGED << constVars, obsVars, aCalls, bCalls, aArgs, bArgs, aEnd, aVars,
                  total_size, downloaded, chunksRead, elapsed, speedTimes, is_running, emitted,
                  term, dirExists, cbLog, stopAt, ownVars, workerVars >>

\* num / den rounded to a whole number (halves upwards)
Rounded(num, den) == (2 * num + den) \div (2 * den)

\* f"{x:.1f}" of the number whose tenths are t
OneDecimal(t) == ToString(t \div 10) \o "." \o ToString(t % 10)

\* format_speed(num / den): B/s below 1024, KB/s below 1024 * 1024, else MB/s
FormatSpeed(num, den) ==
  IF num < 1024 * den
    THEN OneDecimal(Rounded(10 * num, den)) \o " B/s"
  ELSE IF num < 1024 * 1024 * den
    THEN OneDecimal(Rounded(10 * num, 1024 * den)) \o " KB/s"
  ELSE OneDecimal(Rounded(10 * num, 1024 * 1024 * den)) \o " MB/s"

\* lines 332..337: speed_str is empty until more than 0.5 s have passed
\* since last_speed_update, which is never advanced past start_time; then it
\* is format_speed(downloaded / duration), duration = current_time -
\* start_time (t ticks, 2 * WindowTicks of them in a second)
SpeedStr(done, t) ==
  IF t > WindowTicks /\ t > 0
    THEN FormatSpeed(done * ChunkSize * 2 * WindowTicks, t)
    ELSE ""

\* line 341: the event Backend B builds after a chunk
ChunkEvent(done, total, t) ==
  [phase |-> "download", current |-> Percent(done, total), total |-> 100,
   speed |-> SpeedStr(done, t)]

\* lines 322..341: write the chunk, count it, read the clock, report the
\* percent when the content length is known (the clock is used only then);
\* a write error or an exception of the callback goes to the handler
BWrite ==
  /\ pc = "b_write"
  /\ \/ /\ downloaded' = downloaded + chunk
        /\ chunk' = NoChunk
        /\ afterStop' = IF is_running THEN afterStop ELSE afterStop + 1
        /\ IF total_size > 0
             THEN \E raised \in MayRaise, dt \in Ticks :
                    /\ elapsed' = elapsed + dt
                    /\ speedTimes' =
                         IF SpeedStr(downloaded', elapsed') # ""
                           THEN Append(speedTimes, elapsed') ELSE speedTimes
                    /\ IF raised
                         THEN /\ Raises(ChunkEvent(downloaded', total_size, elapsed'))
                              /\ pc' = "b_except"
                         ELSE /\ Deliver(ChunkEvent(downloaded', total_size, elapsed'))
                              /\ pc' = "b_iter"
             ELSE /\ pc' = "b_iter"
                  /\ UNCHANGED << elapsed, speedTimes, cbLog, emitted >>
     \/ /\ pc' = "b_except"
        /\ UNCHANGED << downloaded, chunk, elapsed, speedTimes, cbLog, emitted,
                        afterStop >>
  /\ UNCHANGED << constVars, removeLog, cmd, forwarded, report, allLines, callVars,
                  aVars, total_size, chunksRead, is_running,
                  term, files, dirExists, success, stopAt, ownVars, workerVars >>

\* lines 343..344: the file is closed, 100 is reported, True is returned
BFinal ==
  /\ pc = "b_final"
  /\ \E raised \in MayRaise :
       IF raised
         THEN /\ Raises(FinalEvent)
              /\ pc' = "b_except"
              /\ UNCHANGED << bRet, success >>
         ELSE /\ Deliver(FinalEvent)
              /\ bRet' = "true"
              /\ success' = "true"
              /\ pc' = "run_check"
  /\ UNCHANGED << constVars, removeLog, obsVars, aCalls, bCalls, aArgs, bArgs, aEnd, aVars, bVars,
                  is_running, term, files, dirExists, stopAt, ownVars, workerVars >>

\* a variant of BExcept that lets the exception out of _download_requests
BExceptPropagates ==
  /\ pc = "b_except"
  /\ bRet' = "raise"
  /\ success' = "raise"
  /\ pc' = "run_except"
  /\ UNCHANGED << constVars, removeLog, obsVars, aCalls, bCalls, aArgs, bArgs, aEnd, aVars, bVars,
                  is_running, emitted, term, files, dirExists, cbLog, stopAt, ownVars, workerVars >>


\* lines 346..355: any exception: remove the destination if it exists (a
\* failing remove is ignored), return False
BExcept ==
  /\ pc = "b_except"
  /\ BRemove
  /\ bRet' = "false"
  /\ success' = "false"
  /\ pc' = "run_check"
  /\ UNCHANGED << constVars, obsVars, aCalls, bCalls, aArgs, bArgs, aEnd, aVars, bVars,
                  is_running, emitted, term, dirExists, cbLog, stopAt, ownVars, workerVars >>

\* ------------------------------------------------------------------- Spec
Next ==
  \/ Start \/ Stop \/ RunCheck \/ RunEmit \/ RunExcept
  \/ DlMkdir \/ DlSelect \/ DlRecheck \/ DlExcept
  \/ ASpawn \/ ProcWrite \/ ProcExit \/ APoll \/ AKill \/ ACleanSkip
  \/ ACleanAttempt \/ AReadLine \/ AReadEOF \/ AExit \/ AExcept
  \/ BGet \/ BOpen \/ BNextChunk \/ BStreamEnd \/ BStreamError \/ BCheck
  \/ BWrite \/ BFinal \/ BExcept

Spec == Init /\ [][Next]_vars

SpecBenign == InitBenign /\ [][Next]_vars

\* Backend A reading the output of its subprocess to the end, never stopped
NextLines ==
  \/ Start \/ DlMkdir \/ DlSelect
  \/ ASpawn \/ ProcWrite \/ ProcExit \/ APoll \/ AReadLine \/ AReadEOF \/ AExit

SpecLines == InitLines /\ [][NextLines]_vars

\* Spec with a pipe whose read may fail, from the initial states of SpecLive
NextPipe == Next \/ AReadError

SpecPipe == InitLive /\ [][NextPipe]_vars

\* the steps of the worker thread
Worker ==
  \/ Start \/ RunCheck \/ RunEmit \/ RunExcept
  \/ DlMkdir \/ DlSelect \/ DlRecheck \/ DlExcept
  \/ ASpawn \/ APoll \/ AKill \/ ACleanSkip
  \/ ACleanAttempt \/ AReadLine \/ AReadEOF \/ AExit \/ AExcept
  \/ BGet \/ BOpen \/ BNextChunk \/ BStreamEnd \/ BStreamError \/ BCheck
  \/ BWrite \/ BFinal \/ BExcept

\* the worker thread keeps running, its reads return (a line, a chunk or
\* the end of the stream), and a subprocess that prints nothing more exits
SpecLive == InitLive /\ [][Next]_vars /\ WF_vars(Worker) /\ WF_vars(ProcExit)

\* ------------------------------------------------- owners of DownloadThreads
\* destinations FileProcessor is asked to download to
SavePaths == {"downloads/a.zip", "downloads/b.zip"}
\* AppUpdater.new_app_path: temp_dir joined with update_exe_name
NewAppPath == "EmuManUpdate/EmuMan.exe"

\* QThread.isRunning() of the thread an attribute refers to (0: None)
IsRunning(t) == t # 0 /\ thr[t].st = "running"

\* DownloadThread(url, save_path) followed by start(): a fresh instance
NewThread(t, o, d) ==
  thr' = [thr EXCEPT ![t] = [st |-> "running", owner |-> o, dest |-> d,
                             flag |-> TRUE]]

\* the instance the next DownloadThread(...) call creates
Fresh == CHOOSE t \in 1..MaxThreads :
           thr[t].st = "unborn" /\ \A u \in 1..MaxThreads : thr[u].st = "unborn" => t <= u

\* FileProcessor.start_download_task: refuses while its thread is running
StartDownloadTask ==
  /\ \E t \in 1..MaxThreads : thr[t].st = "unborn"
  /\ \E d \in SavePaths :
       IF IsRunning(fp_dl_thread)
         THEN UNCHANGED << thr, fp_dl_thread >>
         ELSE /\ NewThread(Fresh, "FileProcessor", d)
              /\ fp_dl_thread' = Fresh
  /\ UNCHANGED << dlVars, au_thread, workerVars >>

\* FileProcessor.cancel_download_task: stop() of a running thread
CancelDownloadTask ==
  /\ IF IsRunning(fp_dl_thread)
       THEN thr' = [thr EXCEPT ![fp_dl_thread].flag = FALSE]
       ELSE UNCHANGED thr
  /\ UNCHANGED << dlVars, fp_dl_thread, au_thread, workerVars >>

\* AppUpdater._start_download_process: creates and starts a thread
StartDownloadProcess ==
  /\ \E t \in 1..MaxThreads : thr[t].st = "unborn"
  /\ NewThread(Fresh, "AppUpdater", NewAppPath)
  /\ au_thread' = Fresh
  /\ UNCHANGED << dlVars, fp_dl_thread, workerVars >>

\* run() of a started thread returns (after its terminal signal)
ThreadReturn ==
  /\ \E t \in 1..MaxThreads :
       /\ thr[t].st = "running"
       /\ thr' = [thr EXCEPT ![t].st = "finished"]
  /\ UNCHANGED << dlVars, fp_dl_thread, au_thread, workerVars >>

InitStart ==
  /\ \E r \in Requests : url = r[1] /\ save_path = r[2]
  /\ is_running = TRUE /\ pc = "idle" /\ emitted = << >> /\ term = "none"
  /\ config = "missing" /\ onPath = FALSE /\ bundled = FALSE
  /\ mkdirOk = TRUE /\ cbFaulty = FALSE /\ envFaults = TRUE
  /\ lineBudget = MaxLines
  /\ cmd = NoCmd /\ forwarded = 0 /\ report = << >>
  /\ allLines = << >> /\ afterStop = 0 /\ removeLog = << >>
  /\ files = {} /\ dirExists = FALSE /\ success = "none" /\ cbLog = << >>
  /\ aCalls = 0 /\ bCalls = 0 /\ aArgs = NoArgs /\ bArgs = NoArgs
  /\ aEnd = "none" /\ bRet = "none"
  /\ procState = "none" /\ exitCode = -1 /\ spawns = 0
  /\ last_lines = << >> /\ linesRead = 0 /\ cleanIdx = 0 /\ attempt = 0
  /\ total_size = 0 /\ downloaded = 0 /\ chunk = NoChunk /\ chunksRead = 0
  /\ elapsed = 0 /\ speedTimes = << >> /\ stopAt = "never"
  /\ InitOwners
  /\ InitWorkers

NextStart ==
  \/ StartDownloadTask \/ CancelDownloadTask \/ StartDownloadProcess
  \/ ThreadReturn

SpecStart == InitStart /\ [][NextStart]_vars

\* ================================================================ claims
\* Downloader.download has returned False
ReturnedFalse == success = "false"

\* the indices of the terminal signals (finished, cancelled) in a signal list
TerminalsOf(evs) == { i \in 1..Len(evs) : evs[i][1] \in {"finished", "cancelled"} }

\* stop() was first called after start() and before the terminal signal
StoppedWhileRunning ==
  stopAt \in {"select", "A", "fallback", "B", "returned", "decided"}

\* C1: whenever Downloader.download has returned False (failure or
\* cancellation), the destination path does not exist on disk.
C1_NoPartialFileAfterFalse ==
  ReturnedFalse => DestFile(save_path) \notin files

\* C2: when the cancellation predicate became true while Backend A was
\* active, Backend B is not invoked in that invocation and the invocation
\* ends cancelled (it returns False with the predicate true).
C2_NoFallbackOnCancel ==
  stopAt = "A" =>
    /\ bCalls = 0
    /\ (aEnd \in {"false", "raise"} /\ success # "none" => success = "false")

\* C3: when Backend A failed without cancellation (it raised, or it returned
\* False and the predicate was false at the re-check), Backend B is invoked
\* exactly once with the same URL and destination and download returns Backend
\* B's result; Backend A is started at most once, Backend B at most once and
\* never before Backend A has ended.
C3_SingleFallback ==
  /\ aCalls <= 1 /\ bCalls <= 1 /\ spawns <= aCalls
  /\ (pc \in APcs => bCalls = 0)
  /\ (aCalls = 1 /\ bCalls = 1 =>
        aEnd \in {"false", "raise"} /\ bArgs = aArgs /\ bArgs = << url, save_path >>)
  /\ (aEnd = "raise" /\ pc # "dl_except" => bCalls = 1)
  /\ (aEnd = "false" /\ pc # "dl_recheck"
        /\ stopAt \in {"never", "B", "returned", "decided", "done"} => bCalls = 1)
  /\ (bCalls = 1 /\ success # "none" => success = bRet)

\* C3 witness: Backend A exited non-zero with no cancellation, Backend B ran
\* once and succeeded, and download returned its True
C3_Witness ==
  /\ aEnd = "false" /\ exitCode = 1 /\ stopAt = "never"
  /\ aCalls = 1 /\ bCalls = 1 /\ bRet = "true" /\ success = "true"

\* C4: Backend A is attempted exactly when config.json does not select
\* "requests" and an executable is resolved; otherwise Backend B is invoked
\* directly, no subprocess is spawned and the outcome is Backend B's.
C4_Selection ==
  /\ (pc \notin {"idle", "dl_mkdir", "dl_select", "run_except", "done"}
        => aCalls + bCalls > 0)
  /\ (success \in {"true", "false"} => aCalls + bCalls > 0)
  /\ (aCalls + bCalls > 0 =>
        /\ (aCalls = 1 <=> (config # "requests" /\ (onPath \/ bundled)))
        /\ (~(config # "requests" /\ (onPath \/ bundled)) =>
              /\ aCalls = 0 /\ spawns = 0 /\ procState = "none" /\ bCalls = 1
              /\ (success # "none" => success = bRet)))

\* C4 witness: Backend A is configured, no executable resolves, and the
\* transfer completes through Backend B
C4_Witness ==
  /\ config = "aria2" /\ ~onPath /\ ~bundled
  /\ aCalls = 0 /\ bCalls = 1 /\ success = "true" /\ pc = "done"

\* C5: a run of DownloadThread.run emits exactly one terminal signal: none
\* before it ends, one when it has ended, never two.
C5_ExactlyOneTerminal ==
  /\ Cardinality(TerminalsOf(emitted)) <= 1
  /\ (pc = "done" => Cardinality(TerminalsOf(emitted)) = 1)
  /\ (pc # "done" => TerminalsOf(emitted) = {})

\* C5 witness: stop() came between run()'s flag test and its emit, and the
\* run has ended with its one terminal signal
C5_Witness ==
  /\ pc = "done" /\ stopAt = "decided"
  /\ Cardinality(TerminalsOf(emitted)) = 1

\* C6: the terminal signal is the last signal the thread emits: every signal
\* before the last one is a progress signal, and a finished run ends with a
\* terminal signal.
C6_TerminalIsLast ==
  /\ \A i \in 1..Len(emitted) : i < Len(emitted) => emitted[i][1] = "progress"
  /\ (pc = "done" => Len(emitted) > 0 /\ Len(emitted) \in TerminalsOf(emitted))

\* C6 witness: progress from both backends was relayed, stop() was called
\* during the run, and the run has ended
C6_Witness ==
  /\ pc = "done" /\ StoppedWhileRunning /\ Len(emitted) >= 3
  /\ aCalls = 1 /\ bCalls = 1

\* C7: the percent values passed to the progress callback within one
\* download invocation are non-decreasing.
C7_MonotonePercent ==
  \A i, j \in 1..Len(cbLog) : i < j => cbLog[i].current <= cbLog[j].current

\* at most one thread of an owner is running
OneRunning(o) ==
  Cardinality({ t \in 1..MaxThreads : thr[t].st = "running" /\ thr[t].owner = o }) <= 1

\* C8: a start call while the owner's download is running is a no-op: each
\* owner (FileProcessor, AppUpdater) has at most one running DownloadThread.
C8_IdempotentStart ==
  OneRunning("FileProcessor") /\ OneRunning("AppUpdater")

\* C9: whenever the thread has emitted cancelled, the destination path does
\* not exist on disk.
C9_CancelledLeavesNoFile ==
  (Len(emitted) > 0 /\ emitted[Len(emitted)][1] = "cancelled")
    => DestFile(save_path) \notin files

\* C10: a stop() called while the thread is Running makes the terminal signal
\* cancelled (never finished), and cancelled is emitted only after a stop().
C10_StopMeansCancelled ==
  pc = "done" =>
    /\ (StoppedWhileRunning => emitted[Len(emitted)][1] = "cancelled")
    /\ (emitted[Len(emitted)][1] = "cancelled" => stopAt # "never")

\* C11: when a download returned True through Backend B and the server
\* reported a content length, the destination exists and the number of bytes
\* written to it equals that content length.
C11_SizeEqualsContentLength ==
  (success = "true" /\ bRet = "true" /\ total_size > 0)
    => (DestFile(save_path) \in files /\ downloaded = total_size)

\* C12: whenever Downloader.download has returned True, the last event
\* passed to the progress callback has current = 100 and total = 100.
C12_LastEventIs100 ==
  success = "true" =>
    /\ Len(cbLog) > 0
    /\ cbLog[Len(cbLog)].current = 100
    /\ cbLog[Len(cbLog)].total = 100

\* C12 witness: Backend A reported progress and failed, Backend B then
\* succeeded on a response without a content length
C12_Witness ==
  /\ success = "true" /\ aEnd = "false" /\ bRet = "true"
  /\ total_size = 0 /\ downloaded > 0 /\ Len(cbLog) >= 2

\* positions of the worker inside the read loop of Backend A and on its
\* exits that pass no further event to the callback
ALoopPcs == {"a_poll", "a_read", "a_kill", "a_clean", "a_exit"}

\* the line has a percent in parentheses at piece i and a "DL:" size later
PercentThenDl(line, i) ==
  /\ line[i].pct # -1
  /\ \E j \in (i + 1)..Len(line) : line[j].dl # ""

\* the events due for the output lines ls, in order, under the phase name ph:
\* one (ph, p, 100, s + "/s") per line with a percent p followed by a size s
RECURSIVE EventsOfLines(_, _)
EventsOfLines(ls, ph) ==
  IF ls = << >> THEN << >>
  ELSE LET line == Head(ls)
           hits == { i \in 1..Len(line) : PercentThenDl(line, i) }
           i == CHOOSE h \in hits : \A g \in hits : h <= g
           j == CHOOSE k \in (i + 1)..Len(line) :
                  line[k].dl # "" /\ \A g \in (i + 1)..(k - 1) : line[g].dl = ""
       IN (IF hits = {} THEN << >>
           ELSE << [phase |-> ph, current |-> line[i].pct, total |-> 100,
                    speed |-> line[j].dl \o "/s"] >>)
          \o EventsOfLines(Tail(ls), ph)

\* C13 as stated: in the read loop of Backend A the callback has received,
\* in order, exactly one event (downloading, p, 100, s + "/s") for each
\* output line with a percent p followed by a "DL:" size s, and nothing for
\* the other lines.
C13_LineEventsDownloading ==
  pc \in ALoopPcs => cbLog = EventsOfLines(allLines, "downloading")

\* C13 amended: the same with the phase the code passes: the callback has
\* received exactly one event ('download', p, 100, s + "/s") for each
\* matching output line, and nothing for the other lines.
C13_LineEvents ==
  pc \in ALoopPcs => cbLog = EventsOfLines(allLines, "download")

\* C13 witness: the line of "(40%) ... DL:2.5MiB" was read, then a line with
\* the size before the percent, and the callback received the one event
C13_Witness ==
  /\ pc = "a_poll"
  /\ allLines = << << Pct(40), Text, Dl("2.5MiB") >>, << Dl("2.5MiB"), Pct(40) >> >>
  /\ cbLog = << [phase |-> "download", current |-> 40, total |-> 100,
                 speed |-> "2.5MiB/s"] >>

\* C14: when Backend B has written chunks of a response without a content
\* length, the progress callback has received an event for them.
C14_ProgressWithoutLength ==
  (aCalls = 0 /\ pc \in {"b_iter", "b_check", "b_write", "b_final"}
     /\ total_size = 0 /\ downloaded > 0)
    => Len(cbLog) > 0

\* the progress signals among the emitted signals, in order
IsProgress(sig) == sig[1] = "progress"
ProgressSignals == SelectSeq(emitted, IsProgress)

\* C15 as stated: while the thread has not been stopped, the progress
\* signals are the events passed to the callback, in order, each with all
\* four fields (phase, current, total, speed).
C15_RelayedUnchanged ==
  (is_running /\ ~cbFaulty) =>
    ProgressSignals =
      [i \in 1..Len(cbLog) |->
         << "progress", cbLog[i].phase, cbLog[i].current, cbLog[i].total,
            cbLog[i].speed >>]

\* C15 amended: the progress signals are, in order, the (current, speed) of
\* the events passed to the callback before stop(): phase and total are not
\* relayed, no event before stop() is dropped, reordered or altered in
\* current or speed, and a call that raises relays nothing.
C15_RelayedCurrentAndSpeed ==
  LET relay == [i \in 1..Len(cbLog) |->
                  << "progress", cbLog[i].current, cbLog[i].speed >>]
  IN /\ ~cbFaulty =>
          /\ Len(ProgressSignals) <= Len(cbLog)
          /\ \A i \in 1..Len(ProgressSignals) : ProgressSignals[i] = relay[i]
          /\ (is_running => ProgressSignals = relay)
     /\ cbFaulty => ProgressSignals = << >>

\* C15 witness: events of both backends were relayed to a thread that was
\* never stopped
C15_Witness ==
  /\ pc = "run_check" /\ is_running /\ ~cbFaulty
  /\ aCalls = 1 /\ bCalls = 1
  /\ Len(cbLog) >= 3 /\ Len(ProgressSignals) = Len(cbLog)
  /\ \E i \in 1..Len(cbLog) : cbLog[i].current # cbLog[i].total

\* C16: with config.json missing, unreadable or not JSON the transfer is
\* performed with the defaults: once the directory exists a backend is
\* invoked (Backend A exactly when an executable resolves) and the read
\* error never surfaces as an exception; the command line has
\* --console-log-level=warn and no --disable-ipv6=true; no output line is
\* forwarded to the log.
C16_DefaultsWithoutConfig ==
  config \in {"missing", "invalid"} =>
    /\ (success = "raise" => ~mkdirOk)
    /\ ((mkdirOk /\ pc \notin {"idle", "dl_mkdir", "dl_select"})
          => aCalls + bCalls > 0)
    /\ (aCalls + bCalls > 0 => (aCalls = 1 <=> (onPath \/ bundled)))
    /\ (aCalls = 1 /\ pc # "a_spawn"
          => cmd = [level |-> "warn", noIpv6 |-> FALSE])
    /\ forwarded = 0

\* C16 witness: config.json is not JSON, Backend A ran with the default
\* command line, read its lines and succeeded
C16_Witness ==
  /\ config = "invalid" /\ spawns = 1 /\ linesRead = MaxLines
  /\ cmd.level = "warn" /\ ~cmd.noIpv6 /\ forwarded = 0
  /\ aEnd = "true" /\ success = "true" /\ pc = "done"

\* C17: after a download that returned False, and after one in which
\* Backend A failed and Backend B succeeded, the control file
\* <destination>.aria2 does not exist.
C17_NoControlFileLeft ==
  (success = "false" \/ (success = "true" /\ aCalls = 1 /\ bRet = "true"))
    => Aria2ControlFile(save_path) \notin files

\* a backend is executing
InBackend == pc \in APcs \cup BPcs

\* a poll that finds the predicate true ends the backend with False
PollObserves ==
  /\ (pc = "a_poll" /\ ~is_running /\ pc' # pc) => pc' = "a_kill"
  /\ (pc = "a_kill" /\ pc' # pc) => pc' = "a_clean"
  /\ (pc = "a_clean" /\ pc' # pc) => (aEnd' = "false" /\ pc' = "dl_recheck")
  /\ (pc = "b_check" /\ ~is_running /\ pc' # pc)
       => (bRet' = "false" /\ pc' = "run_check")

\* C18: after stop() the backends process at most one more unit (an output
\* line of the subprocess, a chunk written to the destination); the poll
\* that finds the predicate true makes the backend return False; and, the
\* reads of the worker returning, a stop() during a backend is followed by
\* the return of that backend.
C18_CancelWithinOneUnit ==
  /\ [](afterStop <= 1)
  /\ [][PollObserves]_vars
  /\ ((~is_running /\ InBackend) ~> ~InBackend)

\* C18 witness: stop() came while a chunk was being written; the chunk was
\* written, the next chunk met the check, and Backend B returned False
C18_Witness ==
  /\ stopAt = "B" /\ afterStop = 1 /\ downloaded = 1 /\ chunksRead = 2
  /\ bRet = "false" /\ pc = "run_check"

\* C19: when the read loop of Backend A ends because the subprocess exited,
\* _download_aria2 returns True if the exit code is zero, and otherwise
\* returns False (it does not raise) after writing last_lines to the log.
C19_ExitCodeDecides ==
  [][(pc = "a_exit" /\ pc' # pc) =>
       IF exitCode = 0
         THEN aEnd' = "true"
         ELSE aEnd' = "false" /\ report' = last_lines]_vars

\* the last n elements of s
LastN(s, n) == IF Len(s) <= n THEN s ELSE SubSeq(s, Len(s) - n + 1, Len(s))

\* the output line is not a progress line
IsDiagnostic(line) == ~ProgressMatch(line)

\* C20 as stated: last_lines holds at most 20 lines, and they are exactly the
\* most recent (up to 20) output lines that did not match the progress
\* pattern, in arrival order.
C20_OnlyDiagnosticLines ==
  /\ Len(last_lines) <= LastLinesCap
  /\ last_lines = LastN(SelectSeq(allLines, IsDiagnostic), LastLinesCap)

\* C20 amended: last_lines holds at most 20 lines, and they are exactly the
\* most recent (up to 20) output lines, matching or not, in arrival order.
C20_MostRecentLines ==
  /\ Len(last_lines) <= LastLinesCap
  /\ last_lines = LastN(allLines, LastLinesCap)

\* C20 witness: more than 20 lines were read; a progress line at the head
\* of the output was evicted, and a progress line is the newest of the 20
C20_Witness ==
  /\ Len(allLines) = LastLinesCap + MaxLines
  /\ Len(last_lines) = LastLinesCap
  /\ ProgressMatch(allLines[1])
  /\ ProgressMatch(last_lines[LastLinesCap])
  /\ \E i \in 1..LastLinesCap : ~ProgressMatch(last_lines[i])

\* the entries of removeLog about file f, as indices
VisitsOf(f) == { i \in 1..Len(removeLog) : removeLog[i].file = f }

\* the cancel cleanup of Backend A has run to its end
ACleanupDone == bCalls = 0 /\ removeLog # << >> /\ pc \notin {"a_kill", "a_clean"}

\* C21: in the cancel cleanup of Backend A each existing file gets at most 3
\* os.remove attempts, a further attempt on a file follows only a
\* PermissionError, a success or another error ends the attempts on that
\* file, the control file is handled before the destination and neither is
\* skipped because of the other, and the backend then returns False without
\* raising.
C21_BoundedCleanup ==
  bCalls = 0 =>
    /\ \A f \in {Aria2ControlFile(save_path), DestFile(save_path)} :
         /\ Cardinality(VisitsOf(f)) <= RemoveAttempts
         /\ (ACleanupDone => VisitsOf(f) # {})
         /\ (ACleanupDone /\ f \in files =>
               \E i \in VisitsOf(f) :
                 /\ \A j \in VisitsOf(f) : j <= i
                 /\ \/ removeLog[i].outcome = "error"
                    \/ /\ removeLog[i].outcome = "locked"
                       /\ Cardinality(VisitsOf(f)) = RemoveAttempts)
    /\ \A i \in 1..Len(removeLog) :
         /\ removeLog[i].outcome = "removed" => removeLog[i].file \notin files
         /\ i < Len(removeLog) =>
              IF removeLog[i + 1].file = removeLog[i].file
                THEN removeLog[i].outcome = "locked"
                ELSE /\ removeLog[i].file = Aria2ControlFile(save_path)
                     /\ removeLog[i + 1].file = DestFile(save_path)
    /\ (ACleanupDone => aEnd = "false" /\ success \in {"none", "false"})

\* C21 witness: the control file stayed locked for three attempts, the
\* destination failed otherwise at its first attempt, and the download
\* returned False
C21_Witness ==
  /\ success = "false" /\ aEnd = "false" /\ bCalls = 0
  /\ Len(removeLog) = RemoveAttempts + 1
  /\ \A i \in 1..RemoveAttempts :
       removeLog[i] = [file |-> Aria2ControlFile(save_path), outcome |-> "locked"]
  /\ removeLog[RemoveAttempts + 1] = [file |-> DestFile(save_path), outcome |-> "error"]

C23_SpeedAtMostOncePerWindow ==
  \A i \in 1..Len(speedTimes) : \A j \in 1..Len(speedTimes) :
    i < j => speedTimes[j] - speedTimes[i] >= WindowTicks

\* ---------------------------------------------------------------------------
\* C24: the destination's parent directory exists before either backend is
\* invoked, before the subprocess is spawned and before any file is written;
\* when the directory cannot be created no backend is invoked and the thread
\* reports exactly one finished(False, message).
C24_DirectoryBeforeBackends ==
  /\ (aCalls + bCalls > 0 \/ spawns > 0 \/ files # {}
        \/ pc \in APcs \cup BPcs \cup {"dl_select", "dl_recheck", "dl_except"})
       => dirExists
  /\ ~mkdirOk =>
       /\ aCalls = 0 /\ bCalls = 0 /\ spawns = 0 /\ files = {} /\ cbLog = << >>
       /\ ~dirExists
       /\ success \in {"none", "raise"}
       /\ emitted = IF pc = "done"
                      THEN << << "finished", FALSE, "error" >> >>
                      ELSE << >>

\* mkdir failed, the owner had called stop(), and the run is over
C24_Witness ==
  /\ ~mkdirOk /\ pc = "done" /\ ~is_running
  /\ emitted = << << "finished", FALSE, "error" >> >>

ThreadState ==
  IF pc = "idle" THEN "Idle"
  ELSE IF pc # "done" THEN "Running"
  ELSE IF term = "ok" THEN "Completed"
  ELSE IF term = "cancelled" THEN "Cancelled"
  ELSE "Failed"

TerminalStates == {"Completed", "Failed", "Cancelled"}

\* C26: the instance only moves Idle -> Running -> one of Completed, Failed,
\* Cancelled; nothing leaves a terminal state, nothing goes from Idle to a
\* terminal state; after the terminal event no event is emitted and the
\* outcome does not change, also when stop() is called; _is_running only
\* changes from True to False.
C26_ThreadStateMachine ==
  [][/\ ThreadState' # ThreadState =>
          \/ ThreadState = "Idle" /\ ThreadState' = "Running"
          \/ ThreadState = "Running" /\ ThreadState' \in TerminalStates
     /\ ThreadState \in TerminalStates =>
          /\ emitted' = emitted /\ term' = term /\ pc' = pc
          /\ success' = success
     /\ ThreadState' \in TerminalStates =>
          /\ emitted' # << >>
          /\ emitted'[Len(emitted')][1] =
               IF ThreadState' = "Cancelled" THEN "cancelled" ELSE "finished"
          /\ ThreadState' # "Cancelled" =>
               emitted'[Len(emitted')][2] = (ThreadState' = "Completed")
     /\ is_running' # is_running => is_running /\ ~is_running']_vars

\* stop() was first called after the terminal event of a completed download
C26_Witness ==
  /\ ThreadState = "Completed" /\ stopAt = "done" /\ ~is_running
  /\ emitted[Len(emitted)] = << "finished", TRUE, save_path >>

\* ---------------------------------------------------------------------------
\* FileProcessor owning the DownloadThread whose run is modelled above: the
\* thread is thr[fp_dl_thread], its _is_running is is_running (thr[..].flag)

\* lines 54..67: start_download_task constructs the thread and starts it
\* (one request; nothing happens while a thread is running)
FpStartDownloadTask ==
  /\ pc = "idle"
  /\ ~IsRunning(fp_dl_thread)
  /\ NewThread(Fresh, "FileProcessor", save_path)
  /\ fp_dl_thread' = Fresh
  /\ pc' = "dl_mkdir"
  /\ UNCHANGED << constVars, removeLog, obsVars, callVars, aVars, bVars, is_running, emitted, term,
                  files, dirExists, success, cbLog, stopAt, au_thread, workerVars >>

\* a variant of FpCancelDownloadTask that terminates the subprocess itself
FpCancelKillsSubprocess ==
  /\ IF IsRunning(fp_dl_thread)
       THEN /\ thr' = [thr EXCEPT ![fp_dl_thread].flag = FALSE]
            /\ is_running' = FALSE
            /\ stopAt' = IF stopAt = "never" THEN Phase(pc) ELSE stopAt
            /\ procState' = IF procState = "running" THEN "killed" ELSE procState
       ELSE UNCHANGED << thr, is_running, stopAt, procState >>
  /\ UNCHANGED << constVars, removeLog, obsVars, callVars, exitCode, spawns, last_lines,
                  linesRead, cleanIdx, attempt, bVars, pc, emitted, term,
                  files, dirExists, success, cbLog, fp_dl_thread, au_thread, workerVars >>

\* lines 69..73: cancel_download_task calls stop() of a running thread
FpCancelDownloadTask ==
  /\ IF IsRunning(fp_dl_thread)
       THEN /\ thr' = [thr EXCEPT ![fp_dl_thread].flag = FALSE]
            /\ is_running' = FALSE
            /\ stopAt' = IF stopAt = "never" THEN Phase(pc) ELSE stopAt
       ELSE UNCHANGED << thr, is_running, stopAt >>
  /\ UNCHANGED << constVars, removeLog, obsVars, callVars, aVars, bVars, pc, emitted, term,
                  files, dirExists, success, cbLog, fp_dl_thread, au_thread, workerVars >>

\* run() of the FileProcessor's thread has returned: isRunning() is false
FpThreadReturn ==
  /\ pc = "done"
  /\ IsRunning(fp_dl_thread)
  /\ thr' = [thr EXCEPT ![fp_dl_thread].st = "finished"]
  /\ UNCHANGED << dlVars, fp_dl_thread, au_thread, workerVars >>

NextCancel ==
  \/ FpStartDownloadTask \/ FpCancelDownloadTask \/ FpThreadReturn
  \/ RunCheck \/ RunEmit \/ RunExcept
  \/ DlMkdir \/ DlSelect \/ DlRecheck \/ DlExcept
  \/ ASpawn \/ ProcWrite \/ ProcExit \/ APoll \/ AKill \/ ACleanSkip
  \/ ACleanAttempt \/ AReadLine \/ AReadEOF \/ AExit \/ AExcept
  \/ BGet \/ BOpen \/ BNextChunk \/ BStreamEnd \/ BStreamError \/ BCheck
  \/ BWrite \/ BFinal \/ BExcept

SpecCancel == InitLive /\ [][NextCancel]_vars

\* everything but the cancellation flag (and the record of when it was set)
AllButFlag ==
  << constVars, removeLog, obsVars, callVars, aVars, bVars, pc, emitted, term,
     files, dirExists, success, cbLog, fp_dl_thread, au_thread, workerVars >>

\* C27: stop() and cancel_download_task() change nothing except the
\* cancellation flag: worker position, subprocess, files and signals are left
\* alone; with no thread, or a thread that is not running,
\* cancel_download_task() leaves the flag alone as well.
C27_CancelOnlySetsFlag ==
  [][/\ is_running' # is_running =>
          /\ ~is_running'
          /\ UNCHANGED AllButFlag
          /\ \A t \in 1..MaxThreads :
               /\ thr'[t].st = thr[t].st /\ thr'[t].owner = thr[t].owner
               /\ thr'[t].dest = thr[t].dest
               /\ (t # fp_dl_thread => thr'[t].flag = thr[t].flag)
     /\ ~IsRunning(fp_dl_thread) =>
          /\ is_running' = is_running /\ stopAt' = stopAt
          /\ \A t \in 1..MaxThreads : thr'[t].flag = thr[t].flag]_vars

\* the cancel was requested while aria2c runs: the flag is down, the
\* subprocess still runs and the worker has not polled yet
C27_Witness ==
  /\ IsRunning(fp_dl_thread) /\ ~thr[fp_dl_thread].flag /\ ~is_running
  /\ stopAt = "A" /\ procState = "running" /\ pc = "a_poll"
  /\ DestFile(save_path) \in files /\ emitted = << >>

\* ---------------------------------------------------------------------------
\* the step made a call of progress_callback
CallbackCalled == Len(cbLog') > Len(cbLog)

AfterSite(site) ==
  IF site \in {"connecting", "download"} THEN "download"
  ELSE IF site = "verifying" THEN "verify"
  ELSE "install_end"

\* the phase the callback reports at a site
PhaseOf(site) == IF site = "connecting" THEN "download" ELSE site

\* QThread.start(): the worker begins run() and enters download_and_install
FwStart ==
  /\ fw_pc = "idle"
  /\ fw_pc' = "mkdir"
  /\ UNCHANGED << fw_is_cancelled, fw_emitted, fw_site, fw_events, fw_result,
                  fw_cancelAt, dlVars, ownVars, syncVars >>

\* lines 603..604: temp_dir.mkdir(parents=True, exist_ok=True), outside the
\* try block: an error leaves download_and_install and run(); otherwise
\* line 622 calls progress_callback('download', 0, 100, "Connecting...")
FwMkdir ==
  /\ fw_pc = "mkdir"
  /\ \E ok \in BOOLEAN :
       IF ok THEN fw_pc' = "call" /\ fw_site' = "connecting"
             ELSE fw_pc' = "raised" /\ UNCHANGED fw_site
  /\ UNCHANGED << fw_is_cancelled, fw_emitted, fw_events, fw_result,
                  fw_cancelAt, dlVars, ownVars, syncVars >>

\* line 48: progress_callback tests `not self._is_cancelled`
FwCallbackTest ==
  /\ fw_pc = "call"
  /\ IF ~fw_is_cancelled
       THEN fw_pc' = "emit" /\ UNCHANGED fw_site
       ELSE fw_pc' = AfterSite(fw_site) /\ fw_site' = "none"
  /\ UNCHANGED << fw_is_cancelled, fw_emitted, fw_events, fw_result,
                  fw_cancelAt, dlVars, ownVars, syncVars >>

\* line 49: self.progress.emit(phase, current, total, speed)
FwCallbackEmit ==
  /\ fw_pc = "emit"
  /\ fw_emitted' = Append(fw_emitted, << "progress", PhaseOf(fw_site) >>)
  /\ fw_pc' = AfterSite(fw_site)
  /\ fw_site' = "none"
  /\ UNCHANGED << fw_is_cancelled, fw_events, fw_result, fw_cancelAt, dlVars,
                  ownVars, syncVars >>

\* line 624: Downloader.download reports progress through the callback
FwDownloadProgress ==
  /\ fw_pc = "download"
  /\ fw_events < MaxCallbacks
  /\ fw_events' = fw_events + 1
  /\ fw_pc' = "call"
  /\ fw_site' = "download"
  /\ UNCHANGED << fw_is_cancelled, fw_emitted, fw_result, fw_cancelAt, dlVars,
                  ownVars, syncVars >>

\* lines 624..644: Downloader.download returns; False (or an exception,
\* caught at the end of the try) ends with (False, message); True goes on
\* to the checksum, announced by a 'verifying' callback when one is known
FwDownloadReturns ==
  /\ fw_pc = "download"
  /\ \E ok \in BOOLEAN, known \in BOOLEAN :
       IF ~ok THEN /\ fw_result' = "fail"
                   /\ fw_pc' = "run_test"
                   /\ UNCHANGED fw_site
       ELSE IF known THEN /\ fw_pc' = "call"
                          /\ fw_site' = "verifying"
                          /\ UNCHANGED fw_result
       ELSE /\ fw_pc' = "install"
            /\ UNCHANGED << fw_site, fw_result >>
  /\ UNCHANGED << fw_is_cancelled, fw_emitted, fw_events, fw_cancelAt, dlVars,
                  ownVars, syncVars >>

\* lines 646..652: verify_sha256; a mismatch returns (False, message)
FwVerify ==
  /\ fw_pc = "verify"
  /\ \E ok \in BOOLEAN :
       IF ok THEN fw_pc' = "install" /\ UNCHANGED fw_result
             ELSE fw_pc' = "run_test" /\ fw_result' = "fail"
  /\ UNCHANGED << fw_is_cancelled, fw_emitted, fw_site, fw_events,
                  fw_cancelAt, dlVars, ownVars, syncVars >>

\* lines 656..658: install_firmware reports through install_progress
FwInstallProgress ==
  /\ fw_pc = "install"
  /\ fw_pc' = "call"
  /\ fw_site' = "install"
  /\ UNCHANGED << fw_is_cancelled, fw_emitted, fw_events, fw_result,
                  fw_cancelAt, dlVars, ownVars, syncVars >>

\* lines 660..675: install_firmware returns (success, msg, count) and
\* download_and_install returns (success, msg); an exception returns
\* (False, str(e)); the finally block emits nothing
FwInstallReturns ==
  /\ fw_pc \in {"install", "install_end"}
  /\ \E ok \in BOOLEAN : fw_result' = IF ok THEN "ok" ELSE "fail"
  /\ fw_pc' = "run_test"
  /\ UNCHANGED << fw_is_cancelled, fw_emitted, fw_site, fw_events,
                  fw_cancelAt, dlVars, ownVars, syncVars >>

\* line 62: run() tests `not self._is_cancelled`
FwRunTest ==
  /\ fw_pc = "run_test"
  /\ fw_pc' = IF ~fw_is_cancelled THEN "run_emit" ELSE "done"
  /\ UNCHANGED << fw_is_cancelled, fw_emitted, fw_site, fw_events, fw_result,
                  fw_cancelAt, dlVars, ownVars, syncVars >>

\* line 63: self.finished.emit(success, message)
FwRunEmit ==
  /\ fw_pc = "run_emit"
  /\ fw_emitted' = Append(fw_emitted, << "finished", fw_result = "ok" >>)
  /\ fw_pc' = "done"
  /\ UNCHANGED << fw_is_cancelled, fw_site, fw_events, fw_result,
                  fw_cancelAt, dlVars, ownVars, syncVars >>

\* lines 42..44: cancel(), callable from the owner's thread at any moment
FwCancel ==
  /\ fw_is_cancelled' = TRUE
  /\ fw_cancelAt' = IF fw_cancelAt = NeverCancelled
                      THEN [at |-> fw_pc, emitted |-> Len(fw_emitted)]
                      ELSE fw_cancelAt
  /\ UNCHANGED << fw_pc, fw_emitted, fw_site, fw_events, fw_result, dlVars,
                  ownVars, syncVars >>

NextFirmware ==
  \/ FwStart \/ FwMkdir \/ FwCallbackTest \/ FwCallbackEmit
  \/ FwDownloadProgress \/ FwDownloadReturns \/ FwVerify
  \/ FwInstallProgress \/ FwInstallReturns \/ FwRunTest \/ FwRunEmit
  \/ FwCancel

\* the worker constructed, every other component at rest
InitFirmware == InitStart

SpecFirmware == InitFirmware /\ [][NextFirmware]_vars

\* the finished signals among the emitted ones
FwFinished == { i \in 1..Len(fw_emitted) : fw_emitted[i][1] = "finished" }

\* run() has ended (by returning or by an exception)
FwRunOver == fw_pc \in {"done", "raised"}

\* cancel() was called before the end of run()
FwCancelledInRun == fw_cancelAt.at \notin {"never", "done", "raised"}

\* C29: FirmwareInstallWorker emits finished at most once per run, and by
\* the end of run() it has emitted it exactly when cancel() was not called
\* before; once cancel() has been called no progress and no terminal signal
\* is emitted for that run.
C29_FinishedUnlessCancelled ==
  /\ Cardinality(FwFinished) <= 1
  /\ FwRunOver => (FwFinished # {} <=> ~FwCancelledInRun)
  /\ FwCancelledInRun => Len(fw_emitted) = fw_cancelAt.emitted

\* ---------------------------------------------------------------------------
\* CacheManager and SyncWorker (cache_manager.py)

\* QThread.isRunning() of the worker the CacheManager refers to
IsSyncRunning(n) ==
  n # 0 /\ sw[n].pc \in {"master", "nightly", "decide", "ending"}

\* the instance the next SyncWorker(...) call creates
FreshSync == CHOOSE n \in 1..MaxSyncs :
               sw[n].pc = "unborn" /\ \A m \in 1..MaxSyncs : sw[m].pc = "unborn" => n <= m

\* lines 132..151: start_sync_task(force): a fresh cache answers an
\* unforced call at once; otherwise nothing happens while the worker is
\* running, and else sync_started is emitted and a new worker started
StartSyncTask ==
  \E force \in BOOLEAN :
    IF cache.age = "fresh" /\ ~force
      THEN /\ Len(notified) < 2 * MaxSyncs
           /\ notified' = Append(notified, << "sync_finished", 0 >>)
           /\ UNCHANGED << sw, sync_worker, cache, queued, fwVars, dlVars, ownVars >>
    ELSE IF IsSyncRunning(sync_worker)
      THEN UNCHANGED vars
    ELSE /\ \E n \in 1..MaxSyncs : sw[n].pc = "unborn"
         /\ notified' = Append(notified, << "sync_started", FreshSync >>)
         /\ sw' = [sw EXCEPT ![FreshSync].pc = "master"]
         /\ sync_worker' = FreshSync
         /\ UNCHANGED << cache, queued, fwVars, dlVars, ownVars >>

\* one fetch of SyncWorker.run: any exception adds the branch to
\* failed_branches and run() goes on
Fetched(n, branch, ok, next) ==
  sw' = [sw EXCEPT ![n].pc = next,
                   ![n].failed = IF ok THEN @ ELSE @ \cup {branch}]

\* lines 43..62: the Master releases
SwFetchMaster ==
  /\ \E n \in 1..MaxSyncs :
       /\ sw[n].pc = "master"
       /\ \E ok \in BOOLEAN : Fetched(n, "Master", ok, "nightly")
  /\ UNCHANGED << sync_worker, cache, queued, notified, fwVars, dlVars, ownVars >>

\* lines 64..96: the Nightly releases
SwFetchNightly ==
  /\ \E n \in 1..MaxSyncs :
       /\ sw[n].pc = "nightly"
       /\ \E ok \in BOOLEAN : Fetched(n, "Nightly", ok, "decide")
  /\ UNCHANGED << sync_worker, cache, queued, notified, fwVars, dlVars, ownVars >>

\* a variant of SwDecide that emits finished after a failed fetch as well
SwDecideAlwaysEmits ==
  /\ \E n \in 1..MaxSyncs :
       /\ sw[n].pc = "decide"
       /\ queued' = Append(queued, n)
       /\ sw' = [sw EXCEPT ![n].pc = "ending"]
  /\ UNCHANGED << sync_worker, cache, notified, fwVars, dlVars, ownVars >>

\* lines 98..113: with a failed branch run() merges the old data into its
\* local result and returns; otherwise it emits finished(res_data), which
\* is queued for the CacheManager's thread
SwDecide ==
  /\ \E n \in 1..MaxSyncs :
       /\ sw[n].pc = "decide"
       /\ queued' = IF sw[n].failed = {} THEN Append(queued, n) ELSE queued
       /\ sw' = [sw EXCEPT ![n].pc = "ending"]
  /\ UNCHANGED << sync_worker, cache, notified, fwVars, dlVars, ownVars >>

\* run() has returned: isRunning() is false from now on
SwReturn ==
  /\ \E n \in 1..MaxSyncs :
       /\ sw[n].pc = "ending"
       /\ sw' = [sw EXCEPT ![n].pc = "returned"]
  /\ UNCHANGED << sync_worker, cache, queued, notified, fwVars, dlVars, ownVars >>

\* lines 153..157 and 172..182: _on_worker_finished saves the data (success
\* is True in every emitted result; a write error is only logged) and
\* emits sync_finished
OnWorkerFinished ==
  /\ queued # << >>
  /\ \E saved \in BOOLEAN :
       cache' = IF saved THEN [age |-> "fresh", by |-> Head(queued)] ELSE cache
  /\ notified' = Append(notified, << "sync_finished", Head(queued) >>)
  /\ queued' = Tail(queued)
  /\ UNCHANGED << sw, sync_worker, fwVars, dlVars, ownVars >>

\* lines 184..195: the cache is fresh for max_age seconds
CacheExpires ==
  /\ cache.age = "fresh"
  /\ cache' = [cache EXCEPT !.age = "stale"]
  /\ UNCHANGED << sw, sync_worker, queued, notified, fwVars, dlVars, ownVars >>

\* the steps of the SyncWorker threads
SyncWorkerSteps == SwFetchMaster \/ SwFetchNightly \/ SwDecide \/ SwReturn

NextSync ==
  \/ StartSyncTask \/ SwFetchMaster \/ SwFetchNightly \/ SwDecide \/ SwReturn
  \/ OnWorkerFinished \/ CacheExpires

\* the CacheManager constructed, every other component at rest
InitSync == InitStart

SpecSync == InitSync /\ [][NextSync]_vars

\* the worker threads keep running and the CacheManager's event loop
\* delivers every queued signal
SpecSyncLive ==
  InitSync /\ [][NextSync]_vars /\ WF_vars(SyncWorkerSteps) /\ WF_vars(OnWorkerFinished)

\* a terminal notification of sync n has been emitted
TerminalFor(n) ==
  \E i \in 1..Len(notified) :
    notified[i] \in {<< "sync_finished", n >>, << "sync_error", n >>}

\* both fetches of worker n are over and none failed
BothFetched(n) == sw[n].pc \in {"decide", "ending", "returned"} /\ sw[n].failed = {}

C30_Safety ==
  /\ \A n \in 1..MaxSyncs :
       /\ sw[n].pc # "unborn" =>
            \E i \in 1..Len(notified) : notified[i] = << "sync_started", n >>
       /\ TerminalFor(n) => BothFetched(n)
       /\ sw[n].failed # {} =>
            /\ ~TerminalFor(n)
            /\ \A i \in 1..Len(queued) : queued[i] # n
            /\ cache.by # n
  /\ \A i \in 1..Len(notified) : notified[i][1] # "sync_error"
  /\ Cardinality({ n \in 1..MaxSyncs : IsSyncRunning(n) }) <= 1

====
